---- MODULE Spec2Model ----
(***************************************************************************)
(* Model of AMD::TLCounter (samples/sample_task_system/TLCounter.h): a     *)
(* signed counter guarded by a mutex, with a condition variable on which   *)
(* threads sleep until the counter is decremented to zero or below.        *)
(*                                                                         *)
(* Both platform branches (_MSC_VER / std) and both wake policies          *)
(* (TL_WAKE_ONE = 1 / 0) are compile-time choices of the header; the model *)
(* draws them in Init and never changes them afterwards.                   *)
(*                                                                         *)
(* Every thread runs the operations statement by statement; pc[t] is the   *)
(* statement thread t executes next.                                       *)
(***************************************************************************)
EXTENDS Integers, FiniteSets

\* ---------------------------------------------------------------- bounds
\* number of threads that call WaitUntilZero and WaitOneWakeup
NumWaiters == 2
\* number of threads that call Increment, Decrement, Add and Subtract; these
\* calls hold the mutex from entry to return, so they never overlap and a
\* second such thread only repeats the behaviour of the first
NumWorkers == 1
\* calls are started only while the counter stays within -MaxCounter..MaxCounter
MaxCounter == 2

\* No state of a thread outlives a call, so it does not matter which thread
\* issues which call; the threads are split by the kind of call they issue.
Waiters == 1..NumWaiters
Workers == (NumWaiters + 1)..(NumWaiters + NumWorkers)
Threads == Waiters \cup Workers
\* value of mutex when no thread holds it
NoThread == 0

\* the signed arguments callers pass to Add and Subtract
Args == {-1, 1, 2}
\* the arguments of a caller that never uses Add to lower the counter
PosArgs == {n \in Args : n > 0}

WaitOps == {"WaitUntilZero", "WaitOneWakeup"}
TriggerOps == {"Decrement", "Subtract"}

VARIABLES
    MSC_VER,      \* TRUE: the _MSC_VER branch is compiled, FALSE: the std branch
    WAKE_ONE,     \* the value of TL_WAKE_ONE the header is compiled with
    counter,      \* int32_t counter
    numWaiters,   \* int32_t numWaiters
    mutex,        \* the thread that holds mutex / criticalSection, or NoThread
    condVar,      \* the threads blocked on condVar / conditionVar
    pc,           \* per thread: the statement it executes next
    op,           \* per thread: the operation it is inside, "none" when outside
    arg,          \* per thread: the parameter count of Add / Subtract
    didWait,      \* per thread: the local didWait of the wait operations
    lcounter,     \* per thread: the value the mutating operation returns
    \* history variables, written but never read by the operations
    old,          \* per thread: counter just before the thread's own update
    slept,        \* per thread: it blocked on condVar in this call
    again,        \* per thread: it blocked on condVar more than once in this call
    wakes,        \* per thread: notifies it issued in this call
    net,          \* sum of the deltas of all mutating calls started so far
    reg,          \* per thread: the counter value read by its update statement
    \* the two platform branches of the class side by side
    twin          \* the object compiled without and with _MSC_VER

vars == <<MSC_VER, WAKE_ONE, counter, numWaiters, mutex, condVar, pc, op, arg,
          didWait, lcounter, old, slept, again, wakes, net, reg, twin>>

\* the object the threads run statement by statement
single == <<MSC_VER, WAKE_ONE, counter, numWaiters, mutex, condVar, pc, op, arg,
            didWait, lcounter, old, slept, again, wakes, net, reg>>

build == <<MSC_VER, WAKE_ONE>>
locals == <<op, arg, didWait, lcounter>>
history == <<old, slept, again, wakes>>

\* #define TL_WAKE_ONE 1
TL_WAKE_ONE == 1

\* ------------------------------------------------ the code's expressions
\* ++counter / counter++
IncrementCounter(c) == c + 1
\* counter--
DecrementCounter(c) == c - 1
\* slip: counter = count
AddCounterAssign(c, count) == count

\* counter += count
AddCounter(c, count) == c + count
\* slip: counter += count in Subtract
SubtractCounterSign(c, count) == c + count

\* counter -= count
SubtractCounter(c, count) == c - count

Updated(o, n, c) ==
    CASE o = "Increment" -> IncrementCounter(c)
      [] o = "Decrement" -> DecrementCounter(c)
      [] o = "Add"       -> AddCounter(c, n)
      [] o = "Subtract"  -> SubtractCounter(c, n)

\* slip: while (counter >= 0)
MustWaitAtZero(c) == c >= 0

\* while (counter > 0) / if (counter > 0)
MustWait(c) == c > 0
\* slip: if (counter == 0), as in the comment "and if 0, wake waiters"
MustWakeAtZero(c) == c = 0

\* if (counter <= 0) / if (lcounter <= 0)
MustWake(c) == c <= 0
\* slip: if (numWaiters > 1)
MustRelayOffByOne(w) == w > 1

\* if (numWaiters > 0)
MustRelay(w) == w > 0

\* slip: WaitOneWakeup written with the while of WaitUntilZero
AfterSleepLoop(o) == "test"

\* slip: WaitUntilZero written with the if of WaitOneWakeup
AfterSleepOnce(o) == "relay"

\* where a wait operation continues after didWait = true: WaitUntilZero
\* loops back to its condition, WaitOneWakeup falls through to the relay
AfterSleep(o) == IF o = "WaitUntilZero" THEN "test" ELSE "relay"

\* the contribution of a call to the counter
Delta(o, n) ==
    CASE o = "Increment" -> 1
      [] o = "Decrement" -> -1
      [] o = "Add"       -> n
      [] o = "Subtract"  -> -n
      [] OTHER           -> 0

\* ------------------------------------------------------ condition variable
\* slip: notify_all where notify_one is meant
NotifyEvery(t, next) ==
    /\ condVar' = {}
    /\ pc' = [u \in Threads |-> IF u = t THEN next
                                ELSE IF u \in condVar THEN "woken" ELSE pc[u]]

\* notify_one / WakeConditionVariable issued by thread t, which continues at
\* next: unblocks one of the blocked threads, any of them; nothing happens
\* when none is blocked
NotifyOne(t, next) ==
    IF condVar = {}
    THEN /\ UNCHANGED condVar
         /\ pc' = [pc EXCEPT ![t] = next]
    ELSE \E w \in condVar :
            /\ condVar' = condVar \ {w}
            /\ pc' = [pc EXCEPT ![w] = "woken", ![t] = next]

\* slip: notify_one where notify_all is meant
NotifySingle(t, next) ==
    IF condVar = {}
    THEN /\ UNCHANGED condVar
         /\ pc' = [pc EXCEPT ![t] = next]
    ELSE \E w \in condVar :
            /\ condVar' = condVar \ {w}
            /\ pc' = [pc EXCEPT ![w] = "woken", ![t] = next]

\* notify_all / WakeAllConditionVariable issued by thread t, which continues
\* at next: unblocks every blocked thread
NotifyAll(t, next) ==
    /\ condVar' = {}
    /\ pc' = [u \in Threads |-> IF u = t THEN next
                                ELSE IF u \in condVar THEN "woken" ELSE pc[u]]

\* ------------------------------------------------------------ call bound
\* a call is started only if it leaves the counter in -MaxCounter..MaxCounter
InRange(d) == counter + d \in -MaxCounter..MaxCounter

\* ------------------------------------------------- the object as a value
\* TLCounter(): counter = 0, numWaiters = 0, nobody blocked; beside the
\* members, the value keeps for every thread the wait operation it is inside
\* and its local didWait, and what the last call section gave out: the
\* int32_t and the bool returned last and the number of notifies issued
NewCounter ==
    [counter    |-> 0,
     numWaiters |-> 0,
     condVar    |-> {},
     woken      |-> {},
     call       |-> [t \in Threads |-> "none"],
     didWait    |-> [t \in Threads |-> FALSE],
     returned   |-> 0,
     waited     |-> FALSE,
     notified   |-> 0]

\* ------------------------------------------------------------------ Init
Init ==
    /\ MSC_VER \in BOOLEAN
    /\ WAKE_ONE \in {0, TL_WAKE_ONE}
    /\ counter = 0
    /\ numWaiters = 0
    /\ mutex = NoThread
    /\ condVar = {}
    /\ pc = [t \in Threads |-> "idle"]
    /\ op = [t \in Threads |-> "none"]
    /\ arg = [t \in Threads |-> 0]
    /\ didWait = [t \in Threads |-> FALSE]
    /\ lcounter = [t \in Threads |-> 0]
    /\ old = [t \in Threads |-> 0]
    /\ slept = [t \in Threads |-> FALSE]
    /\ again = [t \in Threads |-> FALSE]
    /\ wakes = [t \in Threads |-> 0]
    /\ net = 0
    /\ reg = [t \in Threads |-> 0]
    /\ twin = [std |-> NewCounter, msvc |-> NewCounter]

\* --------------------------------------------------------------- calling
\* thread t enters operation o with parameter n and takes the mutex:
\* bool didWait = false; unique_lock lock(mutex) / EnterCriticalSection.
\* A thread that finds the mutex taken stays where it is until it is free.
Call(t, o, n) ==
    /\ pc[t] = "idle"
    /\ mutex = NoThread
    /\ InRange(Delta(o, n))
    /\ mutex' = t
    /\ pc' = [pc EXCEPT ![t] = IF o \in WaitOps THEN "test" ELSE "update"]
    /\ op' = [op EXCEPT ![t] = o]
    /\ arg' = [arg EXCEPT ![t] = n]
    /\ didWait' = [didWait EXCEPT ![t] = FALSE]
    /\ net' = net + Delta(o, n)
    /\ UNCHANGED <<build, twin, reg, counter, numWaiters, condVar, lcounter, history>>

CallWaitUntilZero(t) == Call(t, "WaitUntilZero", 0)
CallWaitOneWakeup(t) == Call(t, "WaitOneWakeup", 0)
CallIncrement(t) == Call(t, "Increment", 0)
CallDecrement(t) == Call(t, "Decrement", 0)
CallAdd(t, S) == \E n \in S : Call(t, "Add", n)
CallSubtract(t) == \E n \in Args : Call(t, "Subtract", n)

\* the thread returns: every local of the call goes out of scope
Leave(t) ==
    /\ op' = [op EXCEPT ![t] = "none"]
    /\ arg' = [arg EXCEPT ![t] = 0]
    /\ didWait' = [didWait EXCEPT ![t] = FALSE]
    /\ lcounter' = [lcounter EXCEPT ![t] = 0]
    /\ old' = [old EXCEPT ![t] = 0]
    /\ slept' = [slept EXCEPT ![t] = FALSE]
    /\ again' = [again EXCEPT ![t] = FALSE]
    /\ wakes' = [wakes EXCEPT ![t] = 0]

\* slip: a return path without LeaveCriticalSection / with the lock kept
UnlockMissing(t) ==
    /\ pc[t] = "unlock"
    /\ mutex = t
    /\ pc' = [pc EXCEPT ![t] = "idle"]
    /\ Leave(t)
    /\ UNCHANGED <<build, twin, reg, counter, numWaiters, mutex, condVar, net>>

\* ~unique_lock / LeaveCriticalSection, and the return of didWait / lcounter
Unlock(t) ==
    /\ pc[t] = "unlock"
    /\ mutex = t
    /\ mutex' = NoThread
    /\ pc' = [pc EXCEPT ![t] = "idle"]
    /\ Leave(t)
    /\ UNCHANGED <<build, twin, reg, counter, numWaiters, condVar, net>>

\* -------------------------------------------- WaitUntilZero, WaitOneWakeup
\* while (counter > 0) / if (counter > 0)
Test(t) ==
    /\ pc[t] = "test"
    /\ mutex = t
    /\ pc' = [pc EXCEPT ![t] = IF MustWait(counter) THEN "reg" ELSE "relay"]
    /\ UNCHANGED <<build, twin, reg, counter, numWaiters, mutex, condVar, locals, history, net>>

\* numWaiters++
Register(t) ==
    /\ pc[t] = "reg"
    /\ mutex = t
    /\ numWaiters' = numWaiters + 1
    /\ pc' = [pc EXCEPT ![t] = "wait"]
    /\ UNCHANGED <<build, twin, reg, counter, mutex, condVar, locals, history, net>>

\* condVar.wait(lock) / SleepConditionVariableCS, first half: the thread
\* releases the mutex and blocks on the condition variable in one step
Sleep(t) ==
    /\ pc[t] = "wait"
    /\ mutex = t
    /\ mutex' = NoThread
    /\ condVar' = condVar \cup {t}
    /\ pc' = [pc EXCEPT ![t] = "parked"]
    /\ slept' = [slept EXCEPT ![t] = TRUE]
    /\ again' = [again EXCEPT ![t] = slept[t]]
    /\ UNCHANGED <<build, twin, reg, counter, numWaiters, locals, old, wakes, net>>

\* slip: the wait returns without taking the mutex again
ReacquireUnlocked(t) ==
    /\ pc[t] = "woken"
    /\ pc' = [pc EXCEPT ![t] = "dereg"]
    /\ UNCHANGED <<build, twin, reg, counter, numWaiters, mutex, condVar, locals, history, net>>

\* condVar.wait(lock) / SleepConditionVariableCS, second half: the unblocked
\* thread takes the mutex again before wait returns
Reacquire(t) ==
    /\ pc[t] = "woken"
    /\ mutex = NoThread
    /\ mutex' = t
    /\ pc' = [pc EXCEPT ![t] = "dereg"]
    /\ UNCHANGED <<build, twin, reg, counter, numWaiters, condVar, locals, history, net>>

\* slip: the numWaiters-- after the wait is missing
DeregisterMissing(t) ==
    /\ pc[t] = "dereg"
    /\ mutex = t
    /\ pc' = [pc EXCEPT ![t] = "slept"]
    /\ UNCHANGED <<build, twin, reg, counter, numWaiters, mutex, condVar, locals, history, net>>

\* numWaiters--
Deregister(t) ==
    /\ pc[t] = "dereg"
    /\ mutex = t
    /\ numWaiters' = numWaiters - 1
    /\ pc' = [pc EXCEPT ![t] = "slept"]
    /\ UNCHANGED <<build, twin, reg, counter, mutex, condVar, locals, history, net>>

\* slip: didWait = true is missing
SleptUnrecorded(t) ==
    /\ pc[t] = "slept"
    /\ mutex = t
    /\ pc' = [pc EXCEPT ![t] = AfterSleep(op[t])]
    /\ UNCHANGED <<build, twin, reg, counter, numWaiters, mutex, condVar, locals, history, net>>

\* didWait = true, then back to the loop condition or on to the relay
Slept(t) ==
    /\ pc[t] = "slept"
    /\ mutex = t
    /\ didWait' = [didWait EXCEPT ![t] = TRUE]
    /\ pc' = [pc EXCEPT ![t] = AfterSleep(op[t])]
    /\ UNCHANGED <<build, twin, reg, counter, numWaiters, mutex, condVar, op, arg, lcounter,
                   history, net>>

\* slip: the relay without its if (numWaiters > 0)
RelayUnconditional(t) ==
    /\ pc[t] = "relay"
    /\ mutex = t
    /\ IF WAKE_ONE # 0
       THEN /\ NotifyOne(t, "unlock")
            /\ wakes' = [wakes EXCEPT ![t] = wakes[t] + 1]
       ELSE /\ pc' = [pc EXCEPT ![t] = "unlock"]
            /\ UNCHANGED <<condVar, wakes>>
    /\ UNCHANGED <<build, twin, reg, counter, numWaiters, mutex, locals, old, slept, again, net>>

\* slip: the relay placed inside the wait section, so that only a call that
\* slept issues it
RelayOnlyAfterSleep(t) ==
    /\ pc[t] = "relay"
    /\ mutex = t
    /\ IF WAKE_ONE # 0 /\ MustRelay(numWaiters) /\ didWait[t]
       THEN /\ NotifyOne(t, "unlock")
            /\ wakes' = [wakes EXCEPT ![t] = wakes[t] + 1]
       ELSE /\ pc' = [pc EXCEPT ![t] = "unlock"]
            /\ UNCHANGED <<condVar, wakes>>
    /\ UNCHANGED <<build, twin, reg, counter, numWaiters, mutex, locals, old, slept, again, net>>

\* #if TL_WAKE_ONE  if (numWaiters > 0) condVar.notify_one();  #endif
Relay(t) ==
    /\ pc[t] = "relay"
    /\ mutex = t
    /\ IF WAKE_ONE # 0 /\ MustRelay(numWaiters)
       THEN /\ NotifyOne(t, "unlock")
            /\ wakes' = [wakes EXCEPT ![t] = wakes[t] + 1]
       ELSE /\ pc' = [pc EXCEPT ![t] = "unlock"]
            /\ UNCHANGED <<condVar, wakes>>
    /\ UNCHANGED <<build, twin, reg, counter, numWaiters, mutex, locals, old, slept, again, net>>

\* a blocked thread is unblocked without any notify (both
\* std::condition_variable::wait and SleepConditionVariableCS allow it)
SpuriousWake ==
    \E w \in condVar :
        /\ condVar' = condVar \ {w}
        /\ pc' = [pc EXCEPT ![w] = "woken"]
        /\ UNCHANGED <<build, twin, reg, counter, numWaiters, mutex, locals, history, net>>

\* ------------------------------------ Increment, Decrement, Add, Subtract
\* slip: Add written with the wake test of Subtract
AfterUpdateAddWakes(ms, o) ==
    IF ms THEN "copy"
    ELSE CASE o = "Increment" -> "unlock"
           [] OTHER           -> "check"

\* the statement after the update of the counter
AfterUpdate(ms, o) ==
    IF ms THEN "copy"
    ELSE CASE o = "Increment" -> "unlock"
           [] o = "Add"       -> "ret"
           [] OTHER           -> "check"

\* _MSC_VER: the statement after int32_t lcounter = counter
AfterCopy(o) == IF o \in TriggerOps THEN "check" ELSE "unlock"

\* slip: the lock released before return counter is evaluated
AfterCheckUnlocks(ms) == "unlock"

\* the statement after the if that wakes the waiters
AfterCheck(ms) == IF ms THEN "unlock" ELSE "ret"

\* counter++ / counter-- / counter += count / counter -= count;
\* the std Increment is return ++counter: the same statement yields the result
Update(t) ==
    /\ pc[t] = "update"
    /\ mutex = t
    /\ counter' = Updated(op[t], arg[t], counter)
    /\ old' = [old EXCEPT ![t] = counter]
    /\ lcounter' = IF ~MSC_VER /\ op[t] = "Increment"
                   THEN [lcounter EXCEPT ![t] = counter']
                   ELSE lcounter
    /\ pc' = [pc EXCEPT ![t] = AfterUpdate(MSC_VER, op[t])]
    /\ UNCHANGED <<build, twin, reg, numWaiters, mutex, condVar, op, arg, didWait, slept,
                   again, wakes, net>>

\* slip: int32_t lcounter = counter taken before the update
CopyBeforeUpdate(t) ==
    /\ pc[t] = "copy"
    /\ mutex = t
    /\ lcounter' = [lcounter EXCEPT ![t] = old[t]]
    /\ pc' = [pc EXCEPT ![t] = AfterCopy(op[t])]
    /\ UNCHANGED <<build, twin, reg, counter, numWaiters, mutex, condVar, op, arg, didWait,
                   history, net>>

\* _MSC_VER: int32_t lcounter = counter
Copy(t) ==
    /\ pc[t] = "copy"
    /\ mutex = t
    /\ lcounter' = [lcounter EXCEPT ![t] = counter]
    /\ pc' = [pc EXCEPT ![t] = AfterCopy(op[t])]
    /\ UNCHANGED <<build, twin, reg, counter, numWaiters, mutex, condVar, op, arg, didWait,
                   history, net>>

\* the value the wake test of Decrement / Subtract reads:
\* if (lcounter <= 0) under _MSC_VER, if (counter <= 0) otherwise
Tested(t) == IF MSC_VER THEN lcounter[t] ELSE counter

\* if (counter <= 0) { #if TL_WAKE_ONE notify_one #else notify_all #endif }
Check(t) ==
    /\ pc[t] = "check"
    /\ mutex = t
    /\ IF MustWake(Tested(t))
       THEN /\ IF WAKE_ONE # 0
               THEN NotifyOne(t, AfterCheck(MSC_VER))
               ELSE NotifyAll(t, AfterCheck(MSC_VER))
            /\ wakes' = [wakes EXCEPT ![t] = wakes[t] + 1]
       ELSE /\ pc' = [pc EXCEPT ![t] = AfterCheck(MSC_VER)]
            /\ UNCHANGED <<condVar, wakes>>
    /\ UNCHANGED <<build, twin, reg, counter, numWaiters, mutex, locals, old, slept, again, net>>

\* std: return counter, evaluated before the lock's destructor runs
Ret(t) ==
    /\ pc[t] = "ret"
    /\ mutex = t
    /\ lcounter' = [lcounter EXCEPT ![t] = counter]
    /\ pc' = [pc EXCEPT ![t] = "unlock"]
    /\ UNCHANGED <<build, twin, reg, counter, numWaiters, mutex, condVar, op, arg, didWait,
                   history, net>>

\* ------------------------------------------------------------------ Next
\* a step of thread t while it holds the mutex
Proceed(t) ==
    \/ Test(t)
    \/ Register(t)
    \/ Sleep(t)
    \/ Deregister(t)
    \/ Slept(t)
    \/ Relay(t)
    \/ Update(t)
    \/ Copy(t)
    \/ Check(t)
    \/ Ret(t)
    \/ Unlock(t)

NextWith(addArgs) ==
    \/ \E t \in Waiters : CallWaitUntilZero(t)
    \/ \E t \in Waiters : CallWaitOneWakeup(t)
    \/ \E t \in Workers : CallIncrement(t)
    \/ \E t \in Workers : CallDecrement(t)
    \/ \E t \in Workers : CallAdd(t, addArgs)
    \/ \E t \in Workers : CallSubtract(t)
    \/ \E t \in Threads : Reacquire(t)
    \/ \E t \in Threads : Test(t)
    \/ \E t \in Threads : Register(t)
    \/ \E t \in Threads : Sleep(t)
    \/ \E t \in Threads : Deregister(t)
    \/ \E t \in Threads : Slept(t)
    \/ \E t \in Threads : Relay(t)
    \/ \E t \in Threads : Update(t)
    \/ \E t \in Threads : Copy(t)
    \/ \E t \in Threads : Check(t)
    \/ \E t \in Threads : Ret(t)
    \/ \E t \in Threads : Unlock(t)
    \/ SpuriousWake

Next == NextWith(Args)

Spec == Init /\ [][Next]_vars

TypeOK ==
    /\ counter \in -MaxCounter..MaxCounter
    /\ numWaiters \in 0..NumWaiters
    /\ mutex \in Threads \cup {NoThread}
    /\ condVar \subseteq Threads

\* ------------------------------------------------------------- scheduling
\* the step of the thread that holds the mutex (at most one does)
Run == \E t \in Threads : Proceed(t)

\* the thread that holds the mutex keeps running, and a thread unblocked
\* from the condition variable gets the mutex if it is free again and again;
\* nothing obliges a thread to start a call, and no wake-up is ever owed
\* without a notify
Fairness ==
    /\ WF_vars(Run)
    /\ \A t \in Waiters : SF_vars(Reacquire(t))

\* the operations called with any signed argument, fairly scheduled
FairSpec == Spec /\ Fairness

\* callers that lower the counter with Decrement and Subtract only
\* (Add is called with positive arguments), fairly scheduled
DrainSpec == Init /\ [][NextWith(PosArgs)]_vars /\ Fairness

\* thread t is asleep inside WaitUntilZero, or unblocked and waiting for
\* the mutex
InWaitUntilZero(t) == op[t] = "WaitUntilZero" /\ pc[t] \in {"parked", "woken"}

\* thread t has slept inside WaitUntilZero and has not returned from it
NotReturned(t) == op[t] = "WaitUntilZero" /\ slept[t]

\* C1 (drain-wakes-all): when threads are parked in WaitUntilZero while the
\* counter is <= 0, then, unless the counter rises above 0 again, a moment
\* comes at which every thread that slept in WaitUntilZero has returned
\* (no thread starts to sleep while the counter is <= 0); this holds with
\* TL_WAKE_ONE = 1 and with TL_WAKE_ONE = 0
DrainWakesAll ==
    (counter <= 0 /\ \E t \in Waiters : InWaitUntilZero(t))
        ~> (counter > 0 \/ \A t \in Waiters : ~NotReturned(t))

\* witness of C1: the counter is drained, one thread is leaving WaitUntilZero
\* after having slept and another one has been unblocked behind it
DrainWakesAllWitness ==
    /\ counter <= 0
    /\ \E t, u \in Waiters :
          /\ t # u
          /\ op[t] = "WaitUntilZero" /\ pc[t] = "unlock" /\ didWait[t]
          /\ op[u] = "WaitUntilZero" /\ pc[u] = "woken"

\* C2 (relay invariant): after any sequence of the operations, Add and
\* Subtract with any signed argument, no thread stays asleep on the condition
\* variable while the counter is <= 0: it is unblocked, unless the counter
\* rises above 0 again
RelayInvariant ==
    \A t \in Waiters :
        (pc[t] = "parked" /\ counter <= 0) ~> (pc[t] # "parked" \/ counter > 0)

\* no mutating call is in progress
Settled == \A t \in Workers : pc[t] = "idle"

\* ----------------------------------------------------- contending callers
\* Several threads call the mutating operations at the same time and the
\* calls contend for the mutex: a thread first enters its call and then waits
\* until the mutex is free. The update statement is the read of counter and
\* the write of counter it consists of, and neither asks who holds the mutex:
\* only the order of the statements of the call keeps them inside it.

\* the threads that call the mutating operations: the workers and the last
\* of the waiter threads
Contenders == Workers \cup {NumWaiters}
\* the thread that calls the wait operations meanwhile, each call starting
\* when it gets the mutex: the first waiter
Sleepers == {1}

MutatingOps == {"Increment", "Decrement", "Add", "Subtract"}

\* a call is started only if it leaves the sum of the deltas in
\* -MaxCounter..MaxCounter
NetInRange(d) == net + d \in -MaxCounter..MaxCounter

\* thread t enters mutating operation o with parameter n and has not taken
\* the mutex yet
Enter(t, o, n) ==
    /\ pc[t] = "idle"
    /\ NetInRange(Delta(o, n))
    /\ pc' = [pc EXCEPT ![t] = "lock"]
    /\ op' = [op EXCEPT ![t] = o]
    /\ arg' = [arg EXCEPT ![t] = n]
    /\ net' = net + Delta(o, n)
    /\ UNCHANGED <<build, twin, reg, counter, numWaiters, mutex, condVar,
                   didWait, lcounter, history>>

\* slip: try_lock with its result ignored, the call goes on in any case
AcquireUnlocked(t) ==
    /\ pc[t] = "lock"
    /\ mutex' = t
    /\ pc' = [pc EXCEPT ![t] = "load"]
    /\ UNCHANGED <<build, twin, reg, counter, numWaiters, condVar, locals,
                   history, net>>

\* unique_lock lock(mutex) / EnterCriticalSection: the thread goes on when
\* the mutex is free, and takes it
Acquire(t) ==
    /\ pc[t] = "lock"
    /\ mutex = NoThread
    /\ mutex' = t
    /\ pc' = [pc EXCEPT ![t] = "load"]
    /\ UNCHANGED <<build, twin, reg, counter, numWaiters, condVar, locals,
                   history, net>>

\* counter++ / counter-- / counter += count / counter -= count: the read
Load(t) ==
    /\ pc[t] = "load"
    /\ reg' = [reg EXCEPT ![t] = counter]
    /\ pc' = [pc EXCEPT ![t] = "store"]
    /\ UNCHANGED <<build, twin, counter, numWaiters, mutex, condVar, locals,
                   history, net>>

\* counter++ / counter-- / counter += count / counter -= count: the write;
\* the std Increment is return ++counter: the same statement yields the result
Store(t) ==
    /\ pc[t] = "store"
    /\ counter' = Updated(op[t], arg[t], reg[t])
    /\ old' = [old EXCEPT ![t] = reg[t]]
    /\ reg' = [reg EXCEPT ![t] = 0]
    /\ lcounter' = IF ~MSC_VER /\ op[t] = "Increment"
                   THEN [lcounter EXCEPT ![t] = counter']
                   ELSE lcounter
    /\ pc' = [pc EXCEPT ![t] = AfterUpdate(MSC_VER, op[t])]
    /\ UNCHANGED <<build, twin, numWaiters, mutex, condVar, op, arg, didWait,
                   slept, again, wakes, net>>

ContendNext ==
    \/ \E t \in Sleepers : CallWaitUntilZero(t)
    \/ \E t \in Sleepers : CallWaitOneWakeup(t)
    \/ \E t \in Contenders : Enter(t, "Increment", 0)
    \/ \E t \in Contenders : Enter(t, "Decrement", 0)
    \/ \E t \in Contenders : \E n \in Args : Enter(t, "Add", n)
    \/ \E t \in Contenders : \E n \in Args : Enter(t, "Subtract", n)
    \/ \E t \in Threads : Acquire(t)
    \/ \E t \in Threads : Load(t)
    \/ \E t \in Threads : Store(t)
    \/ \E t \in Threads : Copy(t)
    \/ \E t \in Threads : Check(t)
    \/ \E t \in Threads : Ret(t)
    \/ \E t \in Threads : Unlock(t)
    \/ \E t \in Threads : Test(t)
    \/ \E t \in Threads : Register(t)
    \/ \E t \in Threads : Sleep(t)
    \/ \E t \in Threads : Reacquire(t)
    \/ \E t \in Threads : Deregister(t)
    \/ \E t \in Threads : Slept(t)
    \/ \E t \in Threads : Relay(t)
    \/ SpuriousWake

\* the operations called by threads that contend for the mutex
ContendSpec == Init /\ [][ContendNext]_vars

\* the sum of the deltas of the calls of the threads in S
RECURSIVE DeltaSum(_)
DeltaSum(S) ==
    IF S = {} THEN 0
    ELSE LET t == CHOOSE u \in S : TRUE
         IN Delta(op[t], arg[t]) + DeltaSum(S \ {t})

\* the threads inside a mutating call that has not written the counter yet
Pending ==
    {t \in Threads : op[t] \in MutatingOps /\ pc[t] \in {"lock", "load", "store"}}

\* C3 (balance): with mutating calls of several threads in flight at the
\* same time and wait calls among them, the counter is at every moment the
\* sum of the deltas of the calls that have written it: no update is lost,
\* and once all calls have completed the counter is the sum of all deltas,
\* whatever the interleaving
Balance == counter = net - DeltaSum(Pending)

\* witness of C3: a thread is between the read and the write of its update,
\* a second mutating call waits for the mutex, earlier calls have moved the
\* counter, and a wait call sleeps
BalanceWitness ==
    \E t, u \in Threads :
        /\ t # u
        /\ op[t] \in MutatingOps /\ pc[t] = "store" /\ mutex = t
        /\ op[u] \in MutatingOps /\ pc[u] = "lock"
        /\ Delta(op[u], arg[u]) # 0
        /\ counter # 0
        /\ condVar # {}

\* C4: WaitUntilZero is past its loop only while the counter is <= 0, and
\* after a wake it registers again exactly when it finds the counter > 0
ReleasedOnlyWhenDrained ==
    \A t \in Waiters :
        op[t] = "WaitUntilZero" =>
            /\ pc[t] \in {"relay", "unlock"} => counter <= 0
            /\ pc[t] \in {"reg", "wait"} => counter > 0

\* witness of C4: a WaitUntilZero that was woken with the counter still > 0
\* blocked again, and now leaves with the counter <= 0
ReleasedOnlyWhenDrainedWitness ==
    \E t \in Waiters :
        /\ op[t] = "WaitUntilZero"
        /\ pc[t] = "unlock"
        /\ again[t]

\* C5 (no sleep when already drained): a wait call that holds the mutex
\* while the counter is <= 0 and has not slept before is not registering,
\* is not blocked, and has didWait = false, which it returns
NoSleepWhenDrained ==
    \A t \in Waiters :
        (op[t] \in WaitOps /\ mutex = t /\ ~slept[t] /\ counter <= 0) =>
            /\ pc[t] \in {"test", "relay", "unlock"}
            /\ ~didWait[t]
            /\ t \notin condVar

\* witness of C5: a wait call returns without having slept, the counter
\* being negative
NoSleepWhenDrainedWitness ==
    \E t \in Waiters :
        /\ op[t] \in WaitOps
        /\ pc[t] = "unlock"
        /\ ~slept[t]
        /\ counter < 0

\* C6 (at most once): WaitOneWakeup does not skip the wait when the counter
\* is > 0, blocks once, and after the wake only deregisters, relays and
\* returns true, whatever the counter is then
WaitOneWakeupOnce ==
    \A t \in Waiters :
        op[t] = "WaitOneWakeup" =>
            /\ ~again[t]
            /\ (~slept[t] /\ pc[t] \in {"relay", "unlock"}) => counter <= 0
            /\ slept[t] =>
                  pc[t] \in {"parked", "woken", "dereg", "slept", "relay", "unlock"}
            /\ (slept[t] /\ pc[t] \in {"relay", "unlock"}) => didWait[t]

\* witness of C6: WaitOneWakeup returns true after one sleep while the
\* counter is still > 0
WaitOneWakeupOnceWitness ==
    \E t \in Waiters :
        /\ op[t] = "WaitOneWakeup"
        /\ pc[t] = "unlock"
        /\ didWait[t]
        /\ counter > 0

\* C7: the value a wait call returns is true exactly if the call blocked on
\* the condition variable at least once
DidWaitIffSlept ==
    \A t \in Waiters :
        pc[t] = "unlock" => (didWait[t] <=> slept[t])

\* witness of C7: WaitUntilZero returns true after the counter went 1 -> 0
DidWaitIffSleptWitness ==
    \E t \in Waiters :
        /\ op[t] = "WaitUntilZero"
        /\ pc[t] = "unlock"
        /\ didWait[t]
        /\ counter = 0
        /\ net = 0

\* C8: a mutating call returns the counter as its own update left it,
\* old + 1, old - 1, old + n, old - n, which is still the counter when the
\* value is fixed
ReturnsOwnUpdate ==
    \A t \in Workers :
        pc[t] = "unlock" =>
            /\ lcounter[t] = old[t] + Delta(op[t], arg[t])
            /\ lcounter[t] = counter

\* witness of C8: a Subtract(2) returns from a counter of 1
ReturnsOwnUpdateWitness ==
    \E t \in Workers :
        /\ pc[t] = "unlock"
        /\ op[t] = "Subtract" /\ arg[t] = 2
        /\ old[t] = 1
        /\ lcounter[t] = -1

\* C9: Decrement and Subtract issue one wake if the value they produce is
\* <= 0 and none otherwise, and the value is old - 1 / old - n, unclamped,
\* also when the counter was <= 0 before
WakeIffDrained ==
    \A t \in Workers :
        (op[t] \in TriggerOps /\ pc[t] = "unlock") =>
            /\ counter = old[t] + Delta(op[t], arg[t])
            /\ wakes[t] = IF counter <= 0 THEN 1 ELSE 0

\* witness of C9: a trigger called with the counter already <= 0 drives it
\* further down and wakes again
WakeIffDrainedWitness ==
    \E t \in Workers :
        /\ op[t] \in TriggerOps
        /\ pc[t] = "unlock"
        /\ old[t] <= 0
        /\ counter < old[t]
        /\ wakes[t] = 1

\* the threads that have done numWaiters++ and not yet numWaiters--
Registered == {t \in Threads : pc[t] \in {"wait", "parked", "woken", "dereg"}}

\* C10: numWaiters is the number of threads registered in a wait call and
\* not yet deregistered; it is never negative, and 0 when no thread is
\* inside a wait call
WaiterCount ==
    /\ numWaiters = Cardinality(Registered)
    /\ numWaiters >= 0
    /\ (\A t \in Threads : op[t] \notin WaitOps) => numWaiters = 0

\* witness of C10: one waiter is blocked, another one is unblocked and not
\* yet deregistered, and the mutex is free
WaiterCountWitness ==
    /\ mutex = NoThread
    /\ numWaiters = 2
    /\ \E t, u \in Waiters : pc[t] = "parked" /\ pc[u] = "woken"

\* ------------------------------------------------------ mutual exclusion
\* thread t is at a statement between taking the mutex and releasing it:
\* every statement of the operations that reads or writes counter,
\* numWaiters or the condition variable is one of these
Holding(t) == pc[t] \notin {"idle", "parked", "woken"}

\* C11 (mutual exclusion): a thread is at a statement that reads or writes
\* counter or numWaiters only while it holds the mutex, at most one thread is
\* there at a time, and a thread blocked on the condition variable does not
\* hold the mutex
MutualExclusion ==
    /\ \A t \in Threads : Holding(t) <=> mutex = t
    /\ Cardinality({t \in Threads : Holding(t)}) <= 1
    /\ \A t \in condVar : mutex # t /\ pc[t] = "parked"

\* witness of C11: a thread tests the counter for the wake inside the mutex
\* while one thread is blocked and another is unblocked and waits for the mutex
MutualExclusionWitness ==
    \E t, u, w \in Threads :
        /\ pc[t] = "check" /\ mutex = t
        /\ pc[u] = "parked" /\ u \in condVar
        /\ pc[w] = "woken"

\* ------------------------------------------------- mutators never block
\* the thread that holds the mutex keeps running; nothing else is assumed:
\* no call is owed, and no thread is owed the mutex
RunSpec == Spec /\ WF_vars(Run)

\* C12 (mutators never block): a mutex that is held is released, and at that
\* moment no call of Increment, Decrement, Add or Subtract is under way: the
\* call that held it has returned, and a caller that waited for the mutex
\* finds it free; this holds with threads blocked on the condition variable
\* and the counter above 0
MutatorsNeverBlock ==
    (mutex # NoThread) ~> (mutex = NoThread /\ Settled)

\* witness of C12: a mutating call is about to return while threads are
\* blocked and the counter is above 0
MutatorsNeverBlockWitness ==
    /\ counter > 0
    /\ condVar # {}
    /\ \E t \in Workers : pc[t] = "unlock" /\ mutex = t

\* ------------------------------------------------ Increment and Add frame
\* the operations that never wake
AddOps == {"Increment", "Add"}

\* C13 (frame of Increment and Add): no step of an Increment or Add call,
\* whatever the sign of the argument, changes numWaiters, the set of blocked
\* threads or the position of another thread, and the call issues no notify
IncrementAddFrame ==
    [][\A t \in Workers :
          ((op[t] \in AddOps \/ op'[t] \in AddOps) /\ pc'[t] # pc[t])
              => /\ numWaiters' = numWaiters
                 /\ condVar' = condVar
                 /\ \A u \in Threads \ {t} : pc'[u] = pc[u]
                 /\ wakes'[t] = 0]_vars

\* witness of C13: Add(-1) has brought the counter to 0 or below while a
\* thread is blocked, and is about to return
IncrementAddFrameWitness ==
    \E t \in Workers :
        /\ op[t] = "Add" /\ arg[t] < 0 /\ pc[t] = "unlock"
        /\ counter <= 0
        /\ condVar # {}

\* ------------------------------------------------------------- relay step
\* C14 (relay step): with TL_WAKE_ONE = 1 a call of WaitUntilZero or
\* WaitOneWakeup issues no notify before it leaves its wait section, and when
\* it is about to release the mutex it has issued exactly one notify if
\* numWaiters > 0 and none if numWaiters = 0, whether it slept or not
RelayStep ==
    WAKE_ONE # 0 =>
        \A t \in Waiters :
            /\ (Holding(t) /\ pc[t] # "unlock") => wakes[t] = 0
            /\ pc[t] = "unlock" => wakes[t] = (IF numWaiters > 0 THEN 1 ELSE 0)

\* witness of C14: a call that did not sleep has relayed the wake to a
\* thread that was blocked
RelayStepWitness ==
    /\ WAKE_ONE # 0
    /\ \E t, u \in Waiters :
          /\ pc[t] = "unlock" /\ ~slept[t] /\ wakes[t] = 1
          /\ pc[u] = "woken"

\* ------------------------------------------------------------- wake chain
\* no wait call is under way
Quiet == \A t \in Waiters : pc[t] = "idle"

\* the callers of one wake chain after another: the counter is raised while
\* no wait call is under way, threads call WaitUntilZero while it is above 0,
\* and one Decrement or Subtract brings it to 0 or below; until the counter
\* is raised again no call can start
ChainNext ==
    \/ \E t \in Waiters : MustWait(counter) /\ CallWaitUntilZero(t)
    \/ \E t \in Workers : Quiet /\ CallIncrement(t)
    \/ \E t \in Workers : Quiet /\ CallAdd(t, PosArgs)
    \/ \E t \in Workers :
          MustWait(counter) /\ MustWake(DecrementCounter(counter)) /\ CallDecrement(t)
    \/ \E t \in Workers : \E n \in PosArgs :
          /\ MustWait(counter) /\ MustWake(SubtractCounter(counter, n))
          /\ Call(t, "Subtract", n)
    \/ \E t \in Waiters : Reacquire(t)
    \/ Run
    \/ SpuriousWake

\* the state after construction of a header compiled with TL_WAKE_ONE = 1
ChainInit == Init /\ WAKE_ONE = TL_WAKE_ONE

\* the wake chains of that header, fairly scheduled
ChainSpec == ChainInit /\ [][ChainNext]_vars /\ Fairness

\* C15 (wake chain): with TL_WAKE_ONE = 1 and N threads inside WaitUntilZero,
\* after the one Decrement or Subtract that brings the counter to 0 or below
\* and without any further call, all N threads return; no step unblocks more
\* than one thread; and each thread that leaves has issued one relay notify,
\* except the last one to leave, which has issued none (N - 1 in all)
WakeChain ==
    /\ [](\A t \in Waiters :
            pc[t] = "unlock" =>
                wakes[t] = (IF \E u \in Waiters \ {t} : pc[u] # "idle"
                            THEN 1 ELSE 0))
    /\ [][Cardinality(condVar \ condVar') <= 1]_vars
    /\ (counter <= 0) ~> Quiet

\* witness of C15: after the trigger the first of two threads leaves
\* WaitUntilZero, having slept and relayed, and the second is unblocked
WakeChainWitness ==
    /\ WAKE_ONE # 0
    /\ counter <= 0
    /\ \E t, u \in Waiters :
          /\ t # u
          /\ pc[t] = "unlock" /\ didWait[t] /\ wakes[t] = 1
          /\ op[u] = "WaitUntilZero" /\ pc[u] = "woken" /\ slept[u]

\* --------------------------------------------------- wake of the trigger
\* the step of thread t is the wake test of its Decrement or Subtract
WakeTest(t) == op[t] \in TriggerOps /\ pc[t] = "check" /\ pc'[t] # "check"

\* C16 (wake-one trigger): with TL_WAKE_ONE = 1 a Decrement or Subtract
\* whose result is <= 0 unblocks exactly one blocked thread when there is
\* one and none when there is none; a result above 0 unblocks none
TriggerWakesOne ==
    [][\A t \in Workers :
          (WAKE_ONE # 0 /\ WakeTest(t)) =>
              IF counter <= 0 /\ condVar # {}
              THEN /\ \E w \in condVar :
                        condVar' = condVar \ {w} /\ pc'[w] = "woken"
                   /\ Cardinality({w \in Threads : pc'[w] # pc[w]} \ {t}) = 1
                   /\ wakes'[t] = 1
              ELSE /\ condVar' = condVar
                   /\ \A w \in Threads \ {t} : pc'[w] = pc[w]
                   /\ wakes'[t] = (IF counter <= 0 THEN 1 ELSE 0)]_vars

\* witness of C16: the trigger has notified, one thread is unblocked and
\* another one is still blocked
TriggerWakesOneWitness ==
    /\ WAKE_ONE # 0
    /\ counter <= 0
    /\ \E t \in Workers : op[t] \in TriggerOps /\ wakes[t] = 1
    /\ \E u, w \in Waiters : pc[u] = "woken" /\ pc[w] = "parked"

\* C17 (wake-all trigger): with TL_WAKE_ONE = 0 a Decrement or Subtract whose
\* result is <= 0 unblocks every blocked thread, a thread unblocked inside
\* WaitUntilZero goes back to its condition, and no wait call issues a notify
TriggerWakesAll ==
    /\ [](WAKE_ONE = 0 => \A t \in Waiters : wakes[t] = 0)
    /\ [][\A t \in Workers :
            (WAKE_ONE = 0 /\ WakeTest(t) /\ counter <= 0) =>
                /\ condVar' = {}
                /\ \A w \in condVar : pc'[w] = "woken"
                /\ wakes'[t] = 1]_vars
    /\ [][\A t \in Waiters :
            (WAKE_ONE = 0 /\ op[t] = "WaitUntilZero" /\ pc[t] = "slept"
                /\ pc'[t] # "slept") => pc'[t] = "test"]_vars

\* witness of C17: one notify of the trigger has unblocked every waiter
TriggerWakesAllWitness ==
    /\ WAKE_ONE = 0
    /\ counter <= 0
    /\ condVar = {}
    /\ \E t \in Workers : op[t] \in TriggerOps /\ wakes[t] = 1
    /\ \A w \in Waiters : pc[w] = "woken" /\ slept[w]

\* --------------------------------------------------- finish before unlock
\* C18 (finish before unlock): when a Decrement or Subtract releases the
\* mutex, its update of the counter, its notify and the read of the value it
\* returns are done, the release is the last step of the call, and no
\* thread it unblocked has got past its wait
FinishBeforeUnlock ==
    [][\A t \in Workers :
          (op[t] \in TriggerOps /\ mutex = t /\ mutex' # t) =>
              /\ pc'[t] = "idle"
              /\ counter = old[t] + Delta(op[t], arg[t])
              /\ wakes[t] = (IF counter <= 0 THEN 1 ELSE 0)
              /\ lcounter[t] = counter
              /\ \A w \in Waiters : pc[w] \in {"idle", "parked", "woken"}]_vars

\* witness of C18: the trigger has updated, notified and read its result,
\* and is about to release the mutex the unblocked thread waits for
FinishBeforeUnlockWitness ==
    \E t \in Workers :
        /\ op[t] \in TriggerOps /\ pc[t] = "unlock" /\ mutex = t
        /\ wakes[t] = 1 /\ lcounter[t] = counter /\ counter < 0
        /\ \E w \in Waiters : pc[w] = "woken" /\ slept[w]

\* ------------------------------------------------------------ unit cases
\* C19 (unit cases): a call of Add(1) and a call of Increment leave the same
\* counter, return the same value and issue no notify; a call of
\* Subtract(1) and a call of Decrement leave the same counter, return the
\* same value and issue a notify in the same case
UnitCases ==
    \A t \in Workers :
        pc[t] = "unlock" =>
            /\ (op[t] = "Increment" \/ (op[t] = "Add" /\ arg[t] = 1)) =>
                  /\ counter = IncrementCounter(old[t])
                  /\ counter = AddCounter(old[t], 1)
                  /\ lcounter[t] = counter
                  /\ wakes[t] = 0
            /\ (op[t] = "Decrement" \/ (op[t] = "Subtract" /\ arg[t] = 1)) =>
                  /\ counter = DecrementCounter(old[t])
                  /\ counter = SubtractCounter(old[t], 1)
                  /\ lcounter[t] = counter
                  /\ wakes[t] = (IF MustWake(DecrementCounter(old[t])) THEN 1 ELSE 0)

\* witness of C19: Subtract(1) has brought the counter from 1 to 0 and
\* notified, as Decrement does
UnitCasesWitness ==
    \E t \in Workers :
        /\ op[t] = "Subtract" /\ arg[t] = 1 /\ pc[t] = "unlock"
        /\ old[t] = 1 /\ lcounter[t] = 0 /\ wakes[t] = 1

\* ------------------------------------------- the two branches side by side
\* Between taking the mutex and giving it up (by unlocking or by blocking on
\* the condition variable) a thread runs alone, so a call is a sequence of
\* sections, each a function of the object: from entry to the first wait or
\* the return, and from a wake-up to the next wait or the return. Thread w is
\* the blocked thread the scheduler would pick for a notify of one.

\* notify_one / WakeConditionVariable
WakeOne(g, w) ==
    IF g.condVar = {} THEN [g EXCEPT !.notified = @ + 1]
    ELSE LET x == IF w \in g.condVar THEN w ELSE CHOOSE y \in g.condVar : TRUE
         IN [g EXCEPT !.condVar = @ \ {x}, !.woken = @ \cup {x},
                      !.notified = @ + 1]

\* notify_all / WakeAllConditionVariable
WakeAll(g) ==
    [g EXCEPT !.condVar = {}, !.woken = @ \cup g.condVar, !.notified = @ + 1]

\* #if TL_WAKE_ONE notify_one #else notify_all #endif
Wake(g, wo, w) == IF wo # 0 THEN WakeOne(g, w) ELSE WakeAll(g)

\* a blocked thread is unblocked without a notify
Spurious(g, w) ==
    IF w \in g.condVar
    THEN [g EXCEPT !.condVar = @ \ {w}, !.woken = @ \cup {w}, !.notified = 0]
    ELSE [g EXCEPT !.notified = 0]

\* ---- std branch
\* numWaiters++; condVar.wait(lock): first half
StdBlock(g, t) ==
    [g EXCEPT !.numWaiters = @ + 1, !.condVar = @ \cup {t}]

\* #if TL_WAKE_ONE if (numWaiters > 0) condVar.notify_one(); #endif
\* return didWait
StdRelay(g, wo, t, w) ==
    LET r == IF wo # 0 /\ MustRelay(g.numWaiters) THEN WakeOne(g, w) ELSE g
    IN [r EXCEPT !.call[t] = "none", !.waited = g.didWait[t]]

\* while (counter > 0) { ... }
StdWaitUntilZero(g, wo, t, w) ==
    IF MustWait(g.counter) THEN StdBlock(g, t) ELSE StdRelay(g, wo, t, w)

\* if (counter > 0) { ... }
StdWaitOneWakeup(g, wo, t, w) ==
    IF MustWait(g.counter) THEN StdBlock(g, t) ELSE StdRelay(g, wo, t, w)

\* bool didWait = false; unique_lock lock(mutex); and on to the condition
StdCall(g, wo, t, o, w) ==
    LET e == [g EXCEPT !.call[t] = o, !.didWait[t] = FALSE, !.notified = 0]
    IN IF o = "WaitUntilZero" THEN StdWaitUntilZero(e, wo, t, w)
       ELSE StdWaitOneWakeup(e, wo, t, w)

\* condVar.wait(lock): second half; numWaiters--; didWait = true; then back
\* to the loop condition of WaitUntilZero or on to the relay of WaitOneWakeup
StdWakeUp(g, wo, t, w) ==
    LET e == [g EXCEPT !.woken = @ \ {t}, !.numWaiters = @ - 1,
                       !.didWait[t] = TRUE, !.notified = 0]
    IN IF g.call[t] = "WaitUntilZero" THEN StdWaitUntilZero(e, wo, t, w)
       ELSE StdRelay(e, wo, t, w)

\* return ++counter
StdIncrement(g) ==
    [g EXCEPT !.counter = IncrementCounter(@),
              !.returned = IncrementCounter(g.counter), !.notified = 0]

\* counter--; if (counter <= 0) { notify }; return counter
StdDecrement(g, wo, w) ==
    LET u == [g EXCEPT !.counter = DecrementCounter(@), !.notified = 0]
        n == IF MustWake(u.counter) THEN Wake(u, wo, w) ELSE u
    IN [n EXCEPT !.returned = n.counter]

\* counter += count; return counter
StdAdd(g, count) ==
    LET u == [g EXCEPT !.counter = AddCounter(@, count), !.notified = 0]
    IN [u EXCEPT !.returned = u.counter]

\* counter -= count; if (counter <= 0) { notify }; return counter
StdSubtract(g, wo, count, w) ==
    LET u == [g EXCEPT !.counter = SubtractCounter(@, count), !.notified = 0]
        n == IF MustWake(u.counter) THEN Wake(u, wo, w) ELSE u
    IN [n EXCEPT !.returned = n.counter]

\* ---- _MSC_VER branch
\* numWaiters++; SleepConditionVariableCS: first half
MsvcBlock(g, t) ==
    [g EXCEPT !.numWaiters = @ + 1, !.condVar = @ \cup {t}]

\* #if TL_WAKE_ONE if (numWaiters > 0) WakeConditionVariable #endif
\* LeaveCriticalSection; return didWait
MsvcRelay(g, wo, t, w) ==
    LET r == IF wo # 0 /\ MustRelay(g.numWaiters) THEN WakeOne(g, w) ELSE g
    IN [r EXCEPT !.call[t] = "none", !.waited = g.didWait[t]]

\* while (counter > 0) { ... }
MsvcWaitUntilZero(g, wo, t, w) ==
    IF MustWait(g.counter) THEN MsvcBlock(g, t) ELSE MsvcRelay(g, wo, t, w)

\* if (counter > 0) { ... }
MsvcWaitOneWakeup(g, wo, t, w) ==
    IF MustWait(g.counter) THEN MsvcBlock(g, t) ELSE MsvcRelay(g, wo, t, w)

\* bool didWait = false; EnterCriticalSection; and on to the condition
MsvcCall(g, wo, t, o, w) ==
    LET e == [g EXCEPT !.call[t] = o, !.didWait[t] = FALSE, !.notified = 0]
    IN IF o = "WaitUntilZero" THEN MsvcWaitUntilZero(e, wo, t, w)
       ELSE MsvcWaitOneWakeup(e, wo, t, w)

\* SleepConditionVariableCS: second half; numWaiters--; didWait = true; then
\* back to the loop condition of WaitUntilZero or on to the relay of
\* WaitOneWakeup
MsvcWakeUp(g, wo, t, w) ==
    LET e == [g EXCEPT !.woken = @ \ {t}, !.numWaiters = @ - 1,
                       !.didWait[t] = TRUE, !.notified = 0]
    IN IF g.call[t] = "WaitUntilZero" THEN MsvcWaitUntilZero(e, wo, t, w)
       ELSE MsvcRelay(e, wo, t, w)

\* counter++; int32_t lcounter = counter; return lcounter
MsvcIncrement(g) ==
    LET u == [g EXCEPT !.counter = IncrementCounter(@), !.notified = 0]
        lc == u.counter
    IN [u EXCEPT !.returned = lc]

\* slip: int32_t lcounter = counter taken before counter--
MsvcDecrementStale(g, wo, w) ==
    LET lc == g.counter
        u == [g EXCEPT !.counter = DecrementCounter(@), !.notified = 0]
        n == IF MustWake(lc) THEN Wake(u, wo, w) ELSE u
    IN [n EXCEPT !.returned = lc]

\* counter--; int32_t lcounter = counter; if (lcounter <= 0) { wake };
\* LeaveCriticalSection; return lcounter
MsvcDecrement(g, wo, w) ==
    LET u == [g EXCEPT !.counter = DecrementCounter(@), !.notified = 0]
        lc == u.counter
        n == IF MustWake(lc) THEN Wake(u, wo, w) ELSE u
    IN [n EXCEPT !.returned = lc]

\* counter += count; int32_t lcounter = counter; return lcounter
MsvcAdd(g, count) ==
    LET u == [g EXCEPT !.counter = AddCounter(@, count), !.notified = 0]
        lc == u.counter
    IN [u EXCEPT !.returned = lc]

\* counter -= count; int32_t lcounter = counter; if (lcounter <= 0) { wake };
\* LeaveCriticalSection; return lcounter
MsvcSubtract(g, wo, count, w) ==
    LET u == [g EXCEPT !.counter = SubtractCounter(@, count), !.notified = 0]
        lc == u.counter
        n == IF MustWake(lc) THEN Wake(u, wo, w) ELSE u
    IN [n EXCEPT !.returned = lc]

\* ---- the same schedule applied to both
\* the threads the scheduler may pick for a notify of one: a blocked one,
\* and nobody when none is blocked
Picks == IF twin.std.condVar = {} THEN {NoThread} ELSE twin.std.condVar

\* a call is started only if it leaves the counter in -MaxCounter..MaxCounter
TwinInRange(d) == twin.std.counter + d \in -MaxCounter..MaxCounter

\* thread t, outside any call, calls wait operation o
TwinCall(t, o) ==
    /\ twin.std.call[t] = "none"
    /\ \E w \in Picks :
          twin' = [std  |-> StdCall(twin.std, WAKE_ONE, t, o, w),
                   msvc |-> MsvcCall(twin.msvc, WAKE_ONE, t, o, w)]
    /\ UNCHANGED single

\* the unblocked thread t gets the mutex and runs on
TwinWakeUp(t) ==
    /\ t \in twin.std.woken
    /\ \E w \in Picks :
          twin' = [std  |-> StdWakeUp(twin.std, WAKE_ONE, t, w),
                   msvc |-> MsvcWakeUp(twin.msvc, WAKE_ONE, t, w)]
    /\ UNCHANGED single

TwinSpurious ==
    /\ \E w \in twin.std.condVar :
          twin' = [std  |-> Spurious(twin.std, w),
                   msvc |-> Spurious(twin.msvc, w)]
    /\ UNCHANGED single

TwinIncrement ==
    /\ TwinInRange(1)
    /\ twin' = [std  |-> StdIncrement(twin.std),
                msvc |-> MsvcIncrement(twin.msvc)]
    /\ UNCHANGED single

TwinDecrement ==
    /\ TwinInRange(-1)
    /\ \E w \in Picks :
          twin' = [std  |-> StdDecrement(twin.std, WAKE_ONE, w),
                   msvc |-> MsvcDecrement(twin.msvc, WAKE_ONE, w)]
    /\ UNCHANGED single

TwinAdd ==
    /\ \E n \in Args :
          /\ TwinInRange(n)
          /\ twin' = [std  |-> StdAdd(twin.std, n),
                      msvc |-> MsvcAdd(twin.msvc, n)]
    /\ UNCHANGED single

TwinSubtract ==
    /\ \E n \in Args, w \in Picks :
          /\ TwinInRange(-n)
          /\ twin' = [std  |-> StdSubtract(twin.std, WAKE_ONE, n, w),
                      msvc |-> MsvcSubtract(twin.msvc, WAKE_ONE, n, w)]
    /\ UNCHANGED single

TwinNext ==
    \/ \E t \in Waiters : TwinCall(t, "WaitUntilZero")
    \/ \E t \in Waiters : TwinCall(t, "WaitOneWakeup")
    \/ \E t \in Waiters : TwinWakeUp(t)
    \/ TwinSpurious
    \/ TwinIncrement
    \/ TwinDecrement
    \/ TwinAdd
    \/ TwinSubtract

\* the two branches driven by the same calls, wake-ups and picks
TwinSpec == Init /\ [][TwinNext]_vars

\* C20 (platform branches): driven by the same schedule, the _MSC_VER branch
\* and the std branch have the same counter and numWaiters, the same threads
\* blocked and unblocked, the same notifies issued and the same values
\* returned, after every call section
BranchesAgree == twin.std = twin.msvc

\* witness of C20: in both branches a Decrement or Subtract has returned a
\* negative value and notified, one thread is unblocked and one still blocked
BranchesAgreeWitness ==
    /\ twin.std.returned < 0 /\ twin.msvc.returned < 0
    /\ twin.std.notified = 1 /\ twin.msvc.notified = 1
    /\ twin.std.woken # {} /\ twin.msvc.woken # {}
    /\ twin.std.condVar # {} /\ twin.msvc.condVar # {}
====
